---------------------------- MODULE Spec2Model ----------------------------
(***************************************************************************)
(* Route matching of the vehicle tracker.                                  *)
(*                                                                         *)
(*   - the POST handler of src/app/api/map-match/route.ts: validation,     *)
(*     sort by timestamp, time-interval sampling, matching request,        *)
(*     directions fallback, simple fallback;                               *)
(*   - the MapComponent of src/components/map-component.tsx: single and    *)
(*     batched matching requests, directions fallback, processRoute;       *)
(*   - the page VehicleTracker of src/unnamed/part_000: its handlers, and  *)
(*     the processRoute runs of the MapComponent it renders.               *)
(*                                                                         *)
(* A fix is [id, timestamp]: latitude and longitude are carried to the     *)
(* endpoints and never inspected, so a point sent to an endpoint is the    *)
(* fix itself.  A timestamp is its getTime() value, an integer.            *)
(* A confidence is a fraction <<numerator, denominator>>.                  *)
(***************************************************************************)
EXTENDS Integers, Sequences, FiniteSets, TLC

VARIABLES
    MAPBOX_ACCESS_TOKEN,   \* route.ts:4, TRUE iff the credential is configured
    request,               \* route.ts:26, the parsed body: its fix list, if it has one
    postPc,                \* position of the POST handler
    processedCoordinates,  \* route.ts:43
    directionsCoordinates, \* route.ts:125
    postMatchCalls,        \* point lists sent to the matching endpoint, in order
    postDirCalls,          \* point lists sent to the directions endpoint, in order
    postServed,            \* how the handler's calls have settled, in order
    postLog,               \* what the handler has done so far, in order
    postResponse           \* what the handler returned, NoResponse before

postVars == <<MAPBOX_ACCESS_TOKEN, request, postPc, processedCoordinates,
              directionsCoordinates, postMatchCalls, postDirCalls, postServed,
              postLog, postResponse>>

VARIABLES
    mapCoordinates,        \* map-component.tsx:26, the coordinates prop
    mapPc,                 \* position of the component's processRoute
    isProcessingRoute,     \* map-component.tsx:30
    matchedRouteData,      \* map-component.tsx:31
    matchedRoute,          \* map-component.tsx:224, processRoute's local
    batches,               \* map-component.tsx:84
    batchResults,          \* map-component.tsx:101, one slot per batch
    mapMatchCalls,         \* point lists sent to the matching endpoint, in order
    mapDirCalls,           \* point lists sent to the directions endpoint, in order
    mapServed,             \* how the component's calls have settled, in order
    mapLog                 \* what processRoute has done so far, in order

mapVars == <<mapCoordinates, mapPc, isProcessingRoute, matchedRouteData,
             matchedRoute, batches, batchResults, mapMatchCalls, mapDirCalls,
             mapServed, mapLog>>

VARIABLES
    coordinates,           \* part_000:16, the fixes the page holds
    selectedCoordinate,    \* part_000:17, NoSelection for null
    isLoading,             \* part_000:18
    routeData,             \* part_000:19, NoResult for null
    mapLoaded,             \* map-component.tsx:29
    snapRequest,           \* the call of handleSnapToRoads that awaits its fetch, if any
    routeRuns,             \* the processRoute runs that await a fetch, in order of start
    matchedFrom,           \* the coordinates matchedRouteData was computed from
    clearedSinceSnap       \* Clear All was pressed and no Snap to Roads since

pageVars == <<coordinates, selectedCoordinate, isLoading, routeData, mapLoaded,
              snapRequest, routeRuns, matchedFrom, clearedSinceSnap>>

vars == <<postVars, mapVars, pageVars>>

-----------------------------------------------------------------------------
(* Bounds of the model *)

\* longest fix list submitted to the POST handler
MaxLen == 110
\* fix lists up to this length take every assignment of timestamps
MaxFreeLen == 3
\* timestamps of the short fix lists are 0..MaxTime
MaxTime == 2
\* the component is given up to MaxFullBatches full batches of fixes ...
MaxFullBatches == 2
\* ... and 0, 1 or MaxTail fixes more
MaxTail == 2
\* the fixes of the page have the ids 1..MaxPageIds
MaxPageIds == 2
\* at most MaxRuns processRoute runs of the page's component are in flight
MaxRuns == 2

-----------------------------------------------------------------------------
(* Program constants *)

maxCoordinates == 100
DirectionsTarget == 25
SimpleTarget == 50
maxPointsPerRequest == 100
SingleRequestLimit == 100
WaypointDivisor == 23

-----------------------------------------------------------------------------
(* Fix lists *)

Last(s) == s[Len(s)]

Ids(points) == [i \in 1..Len(points) |-> points[i].id]

\* Timestamps of the long fix lists: one shape of distribution each.
Patterns == {"even", "reversed", "equal", "dupLast", "burst", "pairs", "triples"}

TimestampOf(pattern, len, i) ==
    CASE pattern = "even"     -> i
      [] pattern = "reversed" -> len + 1 - i
      [] pattern = "equal"    -> 0
      [] pattern = "dupLast"  -> IF i = len THEN len - 1 ELSE i
      [] pattern = "burst"    -> IF i = len THEN 1 ELSE 0
      [] pattern = "pairs"    -> i \div 2
      [] pattern = "triples"  -> i \div 3

PatternFixes(len, pattern) ==
    [i \in 1..len |-> [id |-> i, timestamp |-> TimestampOf(pattern, len, i)]]

FreeFixes(len) ==
    { [i \in 1..len |-> [id |-> i, timestamp |-> ts[i]]] :
        ts \in [1..len -> 0..MaxTime] }

\* A length at which one product i * step of sampleCoordinatesEvenly
\* (route.ts:193-196) is a tie, i + 1/2, in exact arithmetic.
TieLengths == {197}

\* The fix lists a caller submits, ids in submitted order.
SubmittedFixLists ==
    UNION { FreeFixes(len) : len \in 0..MaxFreeLen }
    \cup { PatternFixes(len, p) : len \in (MaxFreeLen + 1)..MaxLen, p \in Patterns }
    \cup { PatternFixes(len, "equal") : len \in TieLengths }

-----------------------------------------------------------------------------
(* route.ts: pure steps of POST *)

\* The fixes of list with timestamps in lo..hi, sorted by timestamp, fixes
\* with equal timestamps in the order they have in list.
RECURSIVE SortRange(_, _, _)
SortRange(list, lo, hi) ==
    IF Len(list) <= 1 \/ lo >= hi
    THEN list
    ELSE LET mid == (lo + hi) \div 2
         IN  CHOOSE sorted \in
                 { SortRange(early, lo, mid) \o SortRange(late, mid + 1, hi) :
                     early \in {SelectSeq(list, LAMBDA f : f.timestamp <= mid)},
                     late \in {SelectSeq(list, LAMBDA f : f.timestamp > mid)} } : TRUE

\* route.ts:37-39: a copy sorted by timestamp.  Array.prototype.sort is
\* stable: fixes with equal timestamps keep their relative order.
SortByTimestamp(list) ==
    LET times == { list[i].timestamp : i \in 1..Len(list) }
    IN  IF list = <<>>
        THEN list
        ELSE CHOOSE sorted \in
                 { SortRange(list, lo, hi) :
                     lo \in { t \in times : \A u \in times : t <= u },
                     hi \in { t \in times : \A u \in times : t >= u } } : TRUE

\* route.ts:59-63: the body of the loop for the fix at position i (counted
\* from 1).  timeStep is timeSpan / (maxCoordinates - 1); the test
\* coordTime >= currentTime + timeStep is taken over the integers as
\* (coordTime - currentTime) * (maxCoordinates - 1) >= timeSpan (the double
\* comparison agrees with it for millisecond timestamps: the two sides are
\* equal or differ by at least 1/(maxCoordinates - 1)).
TimeSampleStep(sortedCoordinates, i, timeSpan, acc) ==
    LET coordTime == sortedCoordinates[i].timestamp
    IN  IF (coordTime - acc.currentTime) * (maxCoordinates - 1) >= timeSpan
        THEN [currentTime |-> coordTime,
              processed |-> Append(acc.processed, sortedCoordinates[i])]
        ELSE acc

\* route.ts:58-64: the loop body run for the positions lo..hi in order: for
\* lo..mid, then for mid + 1..hi.  (processed is never empty: it starts with
\* the first fix.)
RECURSIVE TimeSampleLoop(_, _, _, _, _)
TimeSampleLoop(sortedCoordinates, lo, hi, timeSpan, acc) ==
    IF lo > hi
    THEN acc
    ELSE IF lo = hi
    THEN TimeSampleStep(sortedCoordinates, lo, timeSpan, acc)
    ELSE LET mid == (lo + hi) \div 2
         IN  CHOOSE done \in
                 { TimeSampleLoop(sortedCoordinates, mid + 1, hi, timeSpan, half) :
                     half \in {TimeSampleLoop(sortedCoordinates, lo, mid, timeSpan, acc)} } :
                 TRUE

\* route.ts:42-68: time-interval sampling of a sorted list.
TimeSampleAtLimit(sortedCoordinates) ==
    IF Len(sortedCoordinates) >= maxCoordinates
    THEN LET timeSpan == Last(sortedCoordinates).timestamp
                           - sortedCoordinates[1].timestamp
             loop == TimeSampleLoop(sortedCoordinates, 2,
                         Len(sortedCoordinates) - 1, timeSpan,
                         [currentTime |-> sortedCoordinates[1].timestamp,
                          processed |-> <<sortedCoordinates[1]>>])
         IN  Append(loop.processed, Last(sortedCoordinates))
    ELSE sortedCoordinates

TimeSampleLastTwice(sortedCoordinates) ==
    IF Len(sortedCoordinates) > maxCoordinates
    THEN LET timeSpan == Last(sortedCoordinates).timestamp
                           - sortedCoordinates[1].timestamp
             loop == TimeSampleLoop(sortedCoordinates, 2,
                         Len(sortedCoordinates), timeSpan,
                         [currentTime |-> sortedCoordinates[1].timestamp,
                          processed |-> <<sortedCoordinates[1]>>])
         IN  Append(loop.processed, Last(sortedCoordinates))
    ELSE sortedCoordinates

TimeSample(sortedCoordinates) ==
    IF Len(sortedCoordinates) > maxCoordinates
    THEN LET timeSpan == Last(sortedCoordinates).timestamp
                           - sortedCoordinates[1].timestamp
             loop == TimeSampleLoop(sortedCoordinates, 2,
                         Len(sortedCoordinates) - 1, timeSpan,
                         [currentTime |-> sortedCoordinates[1].timestamp,
                          processed |-> <<sortedCoordinates[1]>>])
         IN  Append(loop.processed, Last(sortedCoordinates))
    ELSE sortedCoordinates

\* route.ts:193, 196: step is the double nearest to (len - 1) / (targetCount - 1)
\* and i * step the double nearest to that product.  For the targets 25 and
\* 50 and every len below 400 the product lies on the same side of every
\* tie as the exact quotient, but for these (targetCount, len, i): there the
\* exact quotient is a tie (15 * 196 / 24 = 122.5) and the double product
\* lies just below it (196 / 24 -> 8.166666666666666, times 15 ->
\* 122.49999999999999).
DoubleBelowTie == { <<25, 197, 15>> }

\* route.ts:196: Math.round(i * step), the nearest integer, ties upwards.
RoundedIndex(i, len, targetCount) ==
    IF <<targetCount, len, i>> \in DoubleBelowTie
    THEN (2 * i * (len - 1) - 1 + (targetCount - 1)) \div (2 * (targetCount - 1))
    ELSE (2 * i * (len - 1) + (targetCount - 1)) \div (2 * (targetCount - 1))

\* route.ts:187-202.  Indices here are 1-based.
sampleCoordinatesEvenly(list, targetCount) ==
    IF Len(list) <= targetCount
    THEN list
    ELSE [k \in 1..targetCount |->
            IF k = 1 THEN list[1]
            ELSE IF k = targetCount THEN Last(list)
            ELSE list[RoundedIndex(k - 1, Len(list), targetCount) + 1]]

\* route.ts:125-126
DirectionsCoordinates(processed) ==
    IF Len(processed) > DirectionsTarget
    THEN sampleCoordinatesEvenly(processed, DirectionsTarget)
    ELSE processed

\* route.ts:160-161
SimpleCoordinates(processed) ==
    IF Len(processed) > SimpleTarget
    THEN sampleCoordinatesEvenly(processed, SimpleTarget)
    ELSE processed

-----------------------------------------------------------------------------
(* The external endpoints, as the handlers see them *)

\* How a call to the matching endpoint can settle (route.ts:88-119,
\* map-component.tsx:50-73): the call throws, the status is not a success,
\* the body cannot be parsed, the body holds no matchings, or it holds one.
MatchOutcomes == {"throws", "notOk", "unparseable", "noMatchings", "matched"}

\* How a call to the directions endpoint can settle (route.ts:138-155,
\* map-component.tsx:166-186).
DirectionsOutcomes == {"throws", "notOk", "unparseable", "noRoutes", "routed"}

\* The geometry the service returns for a point list is a LineString
\* (route.ts:8-11) over vertices named after the points it was given.
GeometryShapes == {"ends", "three"}

\* The component takes the geometry as it comes (map-component.tsx:19, 62:
\* geometry: any) and tests its type before merging it (114): there the
\* geometry may also be of another type, one line inside a MultiLineString.
MapGeometryShapes == GeometryShapes \cup {"multi"}

LineString(vertices) == [type |-> "LineString", coordinates |-> vertices]

ServiceGeometry(points, shape) ==
    LET ids == Ids(points)
    IN  CASE shape = "ends"  -> LineString(<<ids[1], ids[Len(ids)]>>)
          [] shape = "three" -> LineString(<<ids[1], ids[2], ids[Len(ids)]>>)
          [] shape = "multi" -> [type |-> "MultiLineString",
                                 coordinates |-> << <<ids[1], ids[Len(ids)]>> >>]

\* The number of non-null tracepoints of a response for n points
\* (route.ts:16-21); a response without tracepoints counts as 0 (route.ts:99).
ValidTracepointCounts(n) == {0, n \div 2, n}

\* The confidence a matching reports (map-component.tsx:64): 0 (or none at
\* all) or a half.
ReportedConfidences == {<<0, 1>>, <<1, 2>>}

\* One settled call: the endpoint, the batch it was for (0: not a batch),
\* the outcome, and for a match or a route what the response held.
Served(endpoint, batch, outcome, shape, valid, reported) ==
    [endpoint |-> endpoint, batch |-> batch, outcome |-> outcome,
     shape |-> shape, valid |-> valid, reported |-> reported]

\* The ways the matching call for n points can settle, seen from route.ts.
PostMatchingServes(n) ==
    { Served("matching", 0, o, "none", 0, <<0, 1>>) : o \in MatchOutcomes \ {"matched"} }
    \cup { Served("matching", 0, "matched", shape, valid, <<0, 1>>) :
             shape \in GeometryShapes, valid \in ValidTracepointCounts(n) }

\* The ways a matching call can settle, seen from map-component.tsx.
MapMatchingServes(b) ==
    { Served("matching", b, o, "none", 0, <<0, 1>>) : o \in MatchOutcomes \ {"matched"} }
    \cup { Served("matching", b, "matched", shape, 0, reported) :
             shape \in MapGeometryShapes, reported \in ReportedConfidences }

\* The ways a directions call can settle.
DirectionsServes ==
    { Served("directions", 0, o, "none", 0, <<0, 1>>) :
        o \in DirectionsOutcomes \ {"routed"} }
    \cup { Served("directions", 0, "routed", shape, 0, <<0, 1>>) :
             shape \in GeometryShapes }

-----------------------------------------------------------------------------
(* route.ts: the POST handler *)

NoResponse == [status |-> 0]

\* route.ts:29
ConfigurationFailure ==
    [status |-> 500, error |-> "Mapbox access token not configured"]

\* route.ts:33
ValidationFailure ==
    [status |-> 400, error |-> "At least 2 coordinates are required"]

\* route.ts:176-182
ProcessingFailure ==
    [status |-> 500, error |-> "Failed to process route"]

\* route.ts:104-112
MatchedResponseOverOriginal(geometry, valid, processed, original) ==
    [status |-> 200, geometry |-> geometry,
     confidence |-> <<valid, Len(original)>>, method |-> "map-matching",
     processedPoints |-> Len(processed), originalPoints |-> Len(original)]

MatchedResponse(geometry, valid, processed, original) ==
    [status |-> 200, geometry |-> geometry,
     confidence |-> <<valid, Len(processed)>>, method |-> "map-matching",
     processedPoints |-> Len(processed), originalPoints |-> Len(original)]

\* route.ts:146-153
DirectionsResponse(geometry, waypoints, original) ==
    [status |-> 200, geometry |-> geometry, method |-> "directions",
     processedPoints |-> Len(waypoints), originalPoints |-> Len(original)]

\* route.ts:160-173
SimpleResponse(processed, original) ==
    LET simpleCoordinates == SimpleCoordinates(processed)
    IN  [status |-> 200, geometry |-> LineString(Ids(simpleCoordinates)),
         method |-> "simple",
         processedPoints |-> Len(simpleCoordinates),
         originalPoints |-> Len(original)]

\* route.ts:32
TooFewCoordinatesOffByOne(req) == ~req.hasCoordinates \/ Len(req.coordinates) < 1

TooFewCoordinates(req) == ~req.hasCoordinates \/ Len(req.coordinates) < 2

\* route.ts:28
TokenCheckedAfterValidation == ~MAPBOX_ACCESS_TOKEN /\ ~TooFewCoordinates(request)

TokenMissing == ~MAPBOX_ACCESS_TOKEN

PostStart ==
    /\ MAPBOX_ACCESS_TOKEN \in BOOLEAN
    /\ request \in
         {[hasCoordinates |-> FALSE, coordinates |-> <<>>]}
         \cup {[hasCoordinates |-> TRUE, coordinates |-> c] : c \in SubmittedFixLists}
    /\ postPc = "start"
    /\ processedCoordinates = <<>>
    /\ directionsCoordinates = <<>>
    /\ postMatchCalls = <<>>
    /\ postDirCalls = <<>>
    /\ postServed = <<>>
    /\ postLog = <<>>
    /\ postResponse = NoResponse

PostReturn(response) ==
    /\ postResponse' = response
    /\ postPc' = "done"

\* route.ts:24-88: from the request to the matching call.
PostReceive ==
    /\ postPc = "start"
    /\ IF TokenMissing
       THEN /\ PostReturn(ConfigurationFailure)
            /\ postLog' = Append(postLog, "configurationFailure")
            /\ UNCHANGED <<processedCoordinates, postMatchCalls>>
       ELSE IF TooFewCoordinates(request)
       THEN /\ PostReturn(ValidationFailure)
            /\ postLog' = Append(postLog, "validationFailure")
            /\ UNCHANGED <<processedCoordinates, postMatchCalls>>
       ELSE \E sortedCoordinates \in {SortByTimestamp(request.coordinates)} :
            \E processed \in {TimeSample(sortedCoordinates)} :
                /\ processedCoordinates' = processed
                /\ postMatchCalls' = Append(postMatchCalls, processed)
                /\ postLog' = Append(postLog, "matchingSent")
                /\ postPc' = "matching"
                /\ UNCHANGED postResponse
    /\ UNCHANGED <<MAPBOX_ACCESS_TOKEN, request, directionsCoordinates,
                   postDirCalls, postServed>>
    /\ UNCHANGED mapVars
    /\ UNCHANGED pageVars

\* route.ts:88-138: the matching call settles; a match is returned, anything
\* else short of a throw goes on to the directions call.
PostMatchingSettles ==
    /\ postPc = "matching"
    /\ \E served \in PostMatchingServes(Len(processedCoordinates)) :
         /\ postServed' = Append(postServed, served)
         /\ CASE served.outcome = "throws" ->
                   /\ PostReturn(ProcessingFailure)
                   /\ postLog' = Append(postLog, "processingFailure")
                   /\ UNCHANGED <<directionsCoordinates, postDirCalls>>
              [] served.outcome = "matched" ->
                   /\ PostReturn(MatchedResponse(
                          ServiceGeometry(processedCoordinates, served.shape),
                          served.valid, processedCoordinates, request.coordinates))
                   /\ postLog' = Append(postLog, "returnedMatched")
                   /\ UNCHANGED <<directionsCoordinates, postDirCalls>>
              [] OTHER ->
                   LET waypoints == DirectionsCoordinates(processedCoordinates)
                   IN  /\ directionsCoordinates' = waypoints
                       /\ postDirCalls' = Append(postDirCalls, waypoints)
                       /\ postLog' = Append(postLog, "directionsSent")
                       /\ postPc' = "directions"
                       /\ UNCHANGED postResponse
    /\ UNCHANGED <<MAPBOX_ACCESS_TOKEN, request, processedCoordinates, postMatchCalls>>
    /\ UNCHANGED mapVars
    /\ UNCHANGED pageVars

\* route.ts:138-183: the directions call settles; a route is returned,
\* anything else short of a throw ends with the simple line.  A body that
\* cannot be parsed makes directionsResponse.json() throw (route.ts:141).
PostDirectionsSettles ==
    /\ postPc = "directions"
    /\ \E served \in DirectionsServes :
         /\ postServed' = Append(postServed, served)
         /\ CASE served.outcome \in {"throws", "unparseable"} ->
                   /\ PostReturn(ProcessingFailure)
                   /\ postLog' = Append(postLog, "processingFailure")
              [] served.outcome = "routed" ->
                   /\ PostReturn(DirectionsResponse(
                          ServiceGeometry(directionsCoordinates, served.shape),
                          directionsCoordinates, request.coordinates))
                   /\ postLog' = Append(postLog, "returnedDirections")
              [] OTHER ->
                   /\ PostReturn(SimpleResponse(processedCoordinates,
                                                request.coordinates))
                   /\ postLog' = postLog \o <<"simpleBuilt", "returnedSimple">>
    /\ UNCHANGED <<MAPBOX_ACCESS_TOKEN, request, processedCoordinates,
                   directionsCoordinates, postMatchCalls, postDirCalls>>
    /\ UNCHANGED mapVars
    /\ UNCHANGED pageVars

\* The handler is not running: the model follows the component instead.
PostIdle ==
    /\ MAPBOX_ACCESS_TOKEN = FALSE
    /\ request = [hasCoordinates |-> FALSE, coordinates |-> <<>>]
    /\ postPc = "idle"
    /\ processedCoordinates = <<>>
    /\ directionsCoordinates = <<>>
    /\ postMatchCalls = <<>>
    /\ postDirCalls = <<>>
    /\ postServed = <<>>
    /\ postLog = <<>>
    /\ postResponse = NoResponse

-----------------------------------------------------------------------------
(* map-component.tsx: pure steps *)

\* A promise not yet settled, and the null a failed attempt resolves to.
Pending == [method |-> "pending"]
NoResult == [method |-> "null"]

\* Fractions
FracAdd(a, b) == <<a[1] * b[2] + b[1] * a[2], a[2] * b[2]>>
FracEq(a, b) == a[1] * b[2] = b[1] * a[2]

\* map-component.tsx:64: matching.confidence || 0.8
ConfidenceOrDefault(reported) == IF reported[1] = 0 THEN <<4, 5>> ELSE reported

\* map-component.tsx:61-67; the matching has one leg between consecutive points.
MapMatchedResult(points, shape, reported) ==
    [geometry |-> ServiceGeometry(points, shape), method |-> "map-matching",
     confidence |-> ConfidenceOrDefault(reported),
     processedPoints |-> Len(points) - 1, originalPoints |-> Len(points)]

\* map-component.tsx:50-73: what performMapMatching resolves to.
MapMatchingResult(points, served) ==
    IF served.outcome = "matched"
    THEN MapMatchedResult(points, served.shape, served.reported)
    ELSE NoResult

\* map-component.tsx:87-92: the loop over the windows; i counts from 0.
RECURSIVE SplitLoop(_, _, _)
SplitLoop(list, i, acc) ==
    IF i >= Len(list)
    THEN acc
    ELSE LET upTo == IF i + maxPointsPerRequest < Len(list)
                     THEN i + maxPointsPerRequest ELSE Len(list)
             batch == SubSeq(list, i + 1, upTo)
         IN  SplitLoop(list, i + maxPointsPerRequest,
                       IF Len(batch) >= 2 THEN Append(acc, batch) ELSE acc)

\* map-component.tsx:83-92
SplitBatchesKeepingShortTail(list) ==
    LET windows == (Len(list) + maxPointsPerRequest - 1) \div maxPointsPerRequest
    IN  [k \in 1..windows |->
            SubSeq(list, (k - 1) * maxPointsPerRequest + 1,
                   IF k * maxPointsPerRequest < Len(list)
                   THEN k * maxPointsPerRequest ELSE Len(list))]

SplitBatches(list) == SplitLoop(list, 0, <<>>)

\* map-component.tsx:104
SuccessfulResultsBeforeFailure(results) ==
    LET failed == { k \in 1..Len(results) : results[k] = NoResult }
    IN  IF failed = {}
        THEN results
        ELSE SubSeq(results, 1, (CHOOSE k \in failed : \A j \in failed : k <= j) - 1)

SuccessfulResults(results) == SelectSeq(results, LAMBDA r : r # NoResult)

\* map-component.tsx:109-119: the forEach over the successful results.
RECURSIVE CombineLoop(_, _, _)
CombineLoop(successful, k, acc) ==
    IF k > Len(successful)
    THEN acc
    ELSE LET result == successful[k]
         IN  CombineLoop(successful, k + 1,
                 IF result.geometry.type = "LineString"
                 THEN [combinedCoordinates |->
                           acc.combinedCoordinates \o result.geometry.coordinates,
                       totalConfidence |->
                           FracAdd(acc.totalConfidence, result.confidence),
                       totalProcessedPoints |->
                           acc.totalProcessedPoints + result.processedPoints]
                 ELSE acc)

\* map-component.tsx:101-130: what performBatchMapMatching resolves to once
\* every batch promise has resolved.
MergeAllOrNothing(results, original) ==
    LET successfulResults == SuccessfulResults(results)
        totals == CombineLoop(successfulResults, 1,
                      [combinedCoordinates |-> <<>>, totalConfidence |-> <<0, 1>>,
                       totalProcessedPoints |-> 0])
    IN  IF Len(successfulResults) < Len(results)
        THEN NoResult
        ELSE [geometry |-> LineString(totals.combinedCoordinates),
              method |-> "map-matching",
              confidence |-> <<totals.totalConfidence[1],
                               totals.totalConfidence[2] * Len(successfulResults)>>,
              processedPoints |-> totals.totalProcessedPoints,
              originalPoints |-> Len(original)]

MergeBatchResults(results, original) ==
    LET successfulResults == SuccessfulResults(results)
        totals == CombineLoop(successfulResults, 1,
                      [combinedCoordinates |-> <<>>, totalConfidence |-> <<0, 1>>,
                       totalProcessedPoints |-> 0])
    IN  IF Len(successfulResults) = 0
        THEN NoResult
        ELSE [geometry |-> LineString(totals.combinedCoordinates),
              method |-> "map-matching",
              confidence |-> <<totals.totalConfidence[1],
                               totals.totalConfidence[2] * Len(successfulResults)>>,
              processedPoints |-> totals.totalProcessedPoints,
              originalPoints |-> Len(original)]

\* map-component.tsx:145-158: the first point, the points at the positions
\* step, 2 * step, ... below len - 1 (counted from 0), the last point.
Waypoints(list) ==
    LET floorStep == Len(list) \div WaypointDivisor
        step == IF floorStep > 1 THEN floorStep ELSE 1
        count == IF Len(list) > 2 THEN (Len(list) - 2) \div step ELSE 0
    IN  <<list[1]>> \o [k \in 1..count |-> list[k * step + 1]] \o <<Last(list)>>

\* map-component.tsx:172-186: what performDirectionsMatching resolves to.
MapDirectionsResult(points, waypoints, served) ==
    IF served.outcome = "routed"
    THEN [geometry |-> ServiceGeometry(waypoints, served.shape),
          method |-> "directions",
          confidence |-> <<9, 10>>, processedPoints |-> Len(waypoints),
          originalPoints |-> Len(points)]
    ELSE NoResult

-----------------------------------------------------------------------------
(* map-component.tsx: processRoute *)

MapPatterns == {"even", "reversed"}

\* Lengths that make one batch, several batches, a tail of fewer than 2
\* fixes and a tail that makes a batch of its own.
BatchedLengths ==
    { b * maxPointsPerRequest + d : b \in 1..MaxFullBatches, d \in {0, 1, MaxTail} }

\* The fix lists the component is given as its coordinates prop.
MapFixLists ==
    UNION { FreeFixes(len) : len \in 0..MaxFreeLen }
    \cup { PatternFixes(len, p) : len \in (MaxFreeLen + 1)..MaxLen, p \in MapPatterns }
    \cup { PatternFixes(len, "even") : len \in BatchedLengths }

\* The component is mounted with its coordinates and no routeData; the
\* effect of map-component.tsx:221 has not run yet.
MapStart ==
    /\ mapCoordinates \in MapFixLists
    /\ mapPc = "mounted"
    /\ isProcessingRoute = FALSE
    /\ matchedRouteData = NoResult
    /\ matchedRoute = NoResult
    /\ batches = <<>>
    /\ batchResults = <<>>
    /\ mapMatchCalls = <<>>
    /\ mapDirCalls = <<>>
    /\ mapServed = <<>>
    /\ mapLog = <<>>

\* The component is not mounted: the model follows the POST handler instead.
MapIdle ==
    /\ mapCoordinates = <<>>
    /\ mapPc = "idle"
    /\ isProcessingRoute = FALSE
    /\ matchedRouteData = NoResult
    /\ matchedRoute = NoResult
    /\ batches = <<>>
    /\ batchResults = <<>>
    /\ mapMatchCalls = <<>>
    /\ mapDirCalls = <<>>
    /\ mapServed = <<>>
    /\ mapLog = <<>>

\* map-component.tsx:221-232 with 34-50 and 80-101: the effect starts
\* processRoute, which runs up to its first await: the single matching
\* request, or every batch's request.
MapEffect ==
    /\ mapPc = "mounted"
    /\ IF Len(mapCoordinates) < 2
       THEN /\ mapPc' = "done"
            /\ UNCHANGED <<isProcessingRoute, batches, batchResults,
                           mapMatchCalls, mapLog>>
       ELSE IF Len(mapCoordinates) <= SingleRequestLimit
       THEN /\ isProcessingRoute' = TRUE
            /\ mapMatchCalls' = Append(mapMatchCalls, mapCoordinates)
            /\ mapLog' = Append(mapLog, "matchingSent")
            /\ mapPc' = "single"
            /\ UNCHANGED <<batches, batchResults>>
       ELSE LET split == SplitBatches(mapCoordinates)
            IN  /\ batches' = split
                /\ batchResults' = [b \in 1..Len(split) |-> Pending]
                /\ isProcessingRoute' = TRUE
                /\ mapMatchCalls' = mapMatchCalls \o split
                /\ mapLog' = Append(mapLog, "matchingSent")
                /\ mapPc' = "batch"
    /\ UNCHANGED <<mapCoordinates, matchedRouteData, matchedRoute, mapDirCalls,
                   mapServed>>
    /\ UNCHANGED postVars
    /\ UNCHANGED pageVars

\* map-component.tsx:234-242: processRoute once the matching attempt has
\* resolved to result; with no result it goes on to performDirectionsMatching
\* (140-166) up to its fetch.
AfterMatchingAlwaysDirections(result) ==
    /\ matchedRoute' = result
    /\ mapDirCalls' = Append(mapDirCalls, Waypoints(mapCoordinates))
    /\ mapLog' = Append(mapLog, "directionsSent")
    /\ mapPc' = "directions"
    /\ UNCHANGED matchedRouteData

AfterMatching(result) ==
    /\ matchedRoute' = result
    /\ IF result = NoResult
       THEN LET waypoints == Waypoints(mapCoordinates)
            IN  /\ mapDirCalls' = Append(mapDirCalls, waypoints)
                /\ mapLog' = Append(mapLog, "directionsSent")
                /\ mapPc' = "directions"
                /\ UNCHANGED matchedRouteData
       ELSE /\ matchedRouteData' = result
            /\ mapLog' = Append(mapLog, "setMatched")
            /\ mapPc' = "done"
            /\ UNCHANGED mapDirCalls

\* map-component.tsx:50-77: the single matching request settles.
MapSingleSettles ==
    /\ mapPc = "single"
    /\ \E served \in MapMatchingServes(0) :
         /\ mapServed' = Append(mapServed, served)
         /\ AfterMatching(MapMatchingResult(mapCoordinates, served))
    /\ isProcessingRoute' = FALSE
    /\ UNCHANGED <<mapCoordinates, batches, batchResults, mapMatchCalls>>
    /\ UNCHANGED postVars
    /\ UNCHANGED pageVars

\* map-component.tsx:50-77 for one batch: its request settles, its promise
\* resolves into its slot of batchResults.
MapBatchSettlesInArrivalOrder ==
    /\ mapPc = "batch"
    /\ \E b \in 1..Len(batches) :
         /\ ~\E i \in 1..Len(mapServed) : mapServed[i].batch = b
         /\ \E served \in MapMatchingServes(b) :
              /\ mapServed' = Append(mapServed, served)
              /\ batchResults' = [batchResults EXCEPT
                     ![Len(mapServed) + 1] = MapMatchingResult(batches[b], served)]
    /\ isProcessingRoute' = FALSE
    /\ UNCHANGED <<mapCoordinates, mapPc, matchedRouteData, matchedRoute, batches,
                   mapMatchCalls, mapDirCalls, mapLog>>
    /\ UNCHANGED postVars
    /\ UNCHANGED pageVars

MapBatchSettlesWithRetry ==
    /\ mapPc = "batch"
    /\ \E b \in 1..Len(batches) :
         /\ batchResults[b] = Pending
         /\ \E served \in MapMatchingServes(b) :
              LET result == MapMatchingResult(batches[b], served)
              IN  /\ mapServed' = Append(mapServed, served)
                  /\ IF result = NoResult /\ Len(mapMatchCalls) = Len(batches)
                     THEN /\ mapMatchCalls' = Append(mapMatchCalls, batches[b])
                          /\ UNCHANGED batchResults
                     ELSE /\ batchResults' = [batchResults EXCEPT ![b] = result]
                          /\ UNCHANGED mapMatchCalls
    /\ isProcessingRoute' = FALSE
    /\ UNCHANGED <<mapCoordinates, mapPc, matchedRouteData, matchedRoute, batches,
                   mapDirCalls, mapLog>>
    /\ UNCHANGED postVars
    /\ UNCHANGED pageVars

MapBatchSettles ==
    /\ mapPc = "batch"
    /\ \E b \in 1..Len(batches) :
         /\ batchResults[b] = Pending
         /\ \E served \in MapMatchingServes(b) :
              /\ mapServed' = Append(mapServed, served)
              /\ batchResults' = [batchResults EXCEPT
                     ![b] = MapMatchingResult(batches[b], served)]
    /\ isProcessingRoute' = FALSE
    /\ UNCHANGED <<mapCoordinates, mapPc, matchedRouteData, matchedRoute, batches,
                   mapMatchCalls, mapDirCalls, mapLog>>
    /\ UNCHANGED postVars
    /\ UNCHANGED pageVars

\* map-component.tsx:101: Promise.all resolves when every batch promise has.
AllBatchesMatched ==
    \A b \in 1..Len(batchResults) : batchResults[b] \notin {Pending, NoResult}

AllBatchesSettled == \A b \in 1..Len(batchResults) : batchResults[b] # Pending

\* map-component.tsx:101-137: the batch results are merged.
MapBatchMerge ==
    /\ mapPc = "batch"
    /\ AllBatchesSettled
    /\ AfterMatching(MergeBatchResults(batchResults, mapCoordinates))
    /\ isProcessingRoute' = FALSE
    /\ UNCHANGED <<mapCoordinates, batches, batchResults, mapMatchCalls, mapServed>>
    /\ UNCHANGED postVars
    /\ UNCHANGED pageVars

\* map-component.tsx:166-191 and 240-242: the directions request settles.
MapDirectionsSettles ==
    /\ mapPc = "directions"
    /\ \E served \in DirectionsServes :
         LET result == MapDirectionsResult(mapCoordinates, Last(mapDirCalls), served)
         IN  /\ mapServed' = Append(mapServed, served)
             /\ matchedRoute' = result
             /\ IF result = NoResult
                THEN UNCHANGED <<matchedRouteData, mapLog>>
                ELSE /\ mapLog' = Append(mapLog, "setDirections")
                     /\ matchedRouteData' = result
    /\ mapPc' = "done"
    /\ UNCHANGED <<mapCoordinates, isProcessingRoute, batches, batchResults,
                   mapMatchCalls, mapDirCalls>>
    /\ UNCHANGED postVars
    /\ UNCHANGED pageVars

-----------------------------------------------------------------------------
(* part_000: the page VehicleTracker, with the MapComponent it renders *)

\* The fixes of the page are told apart by their id alone.
PageIds == 1..MaxPageIds

PageFix(id) == [id |-> id, timestamp |-> id]

NoSelection == [id |-> 0, timestamp |-> 0]

NoSnap == [pending |-> FALSE]

\* file-upload.tsx:38-97: the lists an upload hands to the page: at least one
\* fix, in any order.
UploadedFixLists ==
    UNION { { [i \in 1..n |-> PageFix(ids[i])] :
                ids \in { f \in [1..n -> PageIds] :
                            \A i, j \in 1..n : f[i] = f[j] => i = j } } :
            n \in 1..MaxPageIds }

\* How the fetch of /api/map-match can settle (part_000:49-79): a success
\* status with a result made by one of the three methods of route.ts, another
\* status, or the fetch throws.
SnapOutcomes == {"map-matching", "directions", "simple", "notOk", "throws"}

\* How the calls of a processRoute run can settle.
PageMatchingServes ==
    { Served("matching", 0, o, "none", 0, <<0, 1>>) : o \in {"throws", "notOk"} }
    \cup { Served("matching", 0, "matched", "ends", 0, <<1, 2>>) }

PageDirectionsServes ==
    { Served("directions", 0, "notOk", "none", 0, <<0, 1>>),
      Served("directions", 0, "routed", "ends", 0, <<0, 1>>) }

\* The variables of the component that follow one processRoute run step by
\* step; the page model follows its runs in routeRuns instead.
mapRunVars == <<mapPc, matchedRoute, batches, batchResults, mapMatchCalls,
                mapDirCalls, mapServed, mapLog>>

\* The page has just been mounted (part_000:16-19, map-component.tsx:29-31,
\* with MapIdle for the component's coordinates, isProcessingRoute and
\* matchedRouteData).
PageIdle ==
    /\ coordinates = <<>>
    /\ selectedCoordinate = NoSelection
    /\ isLoading = FALSE
    /\ routeData = NoResult
    /\ mapLoaded = FALSE
    /\ snapRequest = NoSnap
    /\ routeRuns = <<>>
    /\ matchedFrom = <<>>
    /\ clearedSinceSnap = FALSE

Without(list, k) == SubSeq(list, 1, k - 1) \o SubSeq(list, k + 1, Len(list))

\* part_000:142-145 and map-component.tsx:221-247 with 34-50: the page
\* renders the component with the new coordinates and routeData, and the
\* component's effect starts processRoute, which runs up to the fetch of
\* performMapMatching (the lists of the page are short: line 228).
Render(newCoordinates, newRouteData) ==
    /\ mapCoordinates' = newCoordinates
    /\ IF Len(newCoordinates) >= 2 /\ newRouteData = NoResult
       THEN /\ Len(routeRuns) < MaxRuns
            /\ isProcessingRoute' = TRUE
            /\ routeRuns' = Append(routeRuns, [coordinates |-> newCoordinates,
                                               awaiting |-> "matching"])
       ELSE UNCHANGED <<isProcessingRoute, routeRuns>>
    /\ UNCHANGED <<matchedRouteData, matchedFrom, mapRunVars>>
    /\ UNCHANGED postVars

\* map-component.tsx:208-210
MapLoads ==
    /\ ~mapLoaded
    /\ mapLoaded' = TRUE
    /\ UNCHANGED <<coordinates, selectedCoordinate, isLoading, routeData,
                   snapRequest, routeRuns, matchedFrom, clearedSinceSnap>>
    /\ UNCHANGED <<postVars, mapVars>>

\* part_000:21-24
handleCoordinatesUpload ==
    \E newCoordinates \in UploadedFixLists :
        /\ coordinates' = newCoordinates
        /\ selectedCoordinate' = NoSelection
        /\ Render(newCoordinates, routeData)
        /\ UNCHANGED <<isLoading, routeData, mapLoaded, snapRequest, clearedSinceSnap>>

\* part_000:26-28, with part_002:46-53: the form makes a fix with an id of
\* its own.
handleAddCoordinate ==
    \E id \in PageIds :
        /\ \A i \in 1..Len(coordinates) : coordinates[i].id # id
        /\ coordinates' = Append(coordinates, PageFix(id))
        /\ Render(Append(coordinates, PageFix(id)), routeData)
        /\ UNCHANGED <<selectedCoordinate, isLoading, routeData, mapLoaded,
                       snapRequest, clearedSinceSnap>>

\* part_000:33-35
SelectionKeptAfterDelete(id) == selectedCoordinate

SelectionAfterDelete(id) ==
    IF selectedCoordinate.id = id THEN NoSelection ELSE selectedCoordinate

\* part_000:30-38, from the delete button of a row of the list
\* (part_001:67-73).
handleDeleteCoordinate ==
    \E k \in 1..Len(coordinates) :
        LET id == coordinates[k].id
            kept == SelectSeq(coordinates, LAMBDA coord : coord.id # id)
        IN  /\ coordinates' = kept
            /\ selectedCoordinate' = SelectionAfterDelete(id)
            /\ Render(kept, routeData)
            /\ UNCHANGED <<isLoading, routeData, mapLoaded, snapRequest,
                           clearedSinceSnap>>

\* part_000:40-42, from a click on a row of the list (part_001:46).
handleCoordinateSelect ==
    \E k \in 1..Len(coordinates) :
        /\ selectedCoordinate' = coordinates[k]
        /\ UNCHANGED <<coordinates, isLoading, routeData, mapLoaded, snapRequest,
                       routeRuns, matchedFrom, clearedSinceSnap>>
        /\ UNCHANGED <<postVars, mapVars>>

\* map-component.tsx:432-442 with part_000:40-42: a click on a point of the
\* layer, which holds the current coordinates once the map has loaded
\* (250-297); the handler looks the id up in its coordinates.
MapClick ==
    /\ mapLoaded
    /\ \E k \in 1..Len(mapCoordinates) :
         LET coordId == mapCoordinates[k].id
             found == SelectSeq(mapCoordinates, LAMBDA c : c.id = coordId)
         IN  /\ found # <<>>
             /\ selectedCoordinate' = found[1]
    /\ UNCHANGED <<coordinates, isLoading, routeData, mapLoaded, snapRequest,
                   routeRuns, matchedFrom, clearedSinceSnap>>
    /\ UNCHANGED <<postVars, mapVars>>

\* part_000:44-55: the button shows with more than one coordinate and is
\* disabled while isLoading (105-106); handleSnapToRoads runs up to its fetch.
handleSnapToRoads ==
    /\ Len(coordinates) > 1
    /\ ~isLoading
    /\ isLoading' = TRUE
    /\ snapRequest' = [pending |-> TRUE, coordinates |-> coordinates]
    /\ clearedSinceSnap' = FALSE
    /\ UNCHANGED <<coordinates, selectedCoordinate, routeData, mapLoaded,
                   routeRuns, matchedFrom>>
    /\ UNCHANGED <<postVars, mapVars>>

\* part_000:57-82: the fetch of handleSnapToRoads settles.
SnapSettles ==
    /\ snapRequest # NoSnap
    /\ \E outcome \in SnapOutcomes :
         LET data == [method |-> outcome,
                      originalPoints |-> Len(snapRequest.coordinates)]
             newRouteData == IF outcome \in {"notOk", "throws"} THEN routeData ELSE data
         IN  /\ routeData' = newRouteData
             /\ Render(coordinates, newRouteData)
    /\ isLoading' = FALSE
    /\ snapRequest' = NoSnap
    /\ UNCHANGED <<coordinates, selectedCoordinate, mapLoaded, clearedSinceSnap>>

\* part_000:85-89; the button shows with at least one coordinate (120-124).
handleClearAll ==
    /\ Len(coordinates) > 0
    /\ coordinates' = <<>>
    /\ selectedCoordinate' = NoSelection
    /\ routeData' = NoResult
    /\ clearedSinceSnap' = TRUE
    /\ Render(<<>>, NoResult)
    /\ UNCHANGED <<isLoading, mapLoaded, snapRequest>>

\* map-component.tsx:50-77 and 234-242: the matching fetch of a run settles;
\* with no result the run goes on to performDirectionsMatching (140-166).
RouteMatchingSettles ==
    /\ \E k \in 1..Len(routeRuns) :
         /\ routeRuns[k].awaiting = "matching"
         /\ \E served \in PageMatchingServes :
              LET result == MapMatchingResult(routeRuns[k].coordinates, served)
              IN  IF result = NoResult
                  THEN /\ routeRuns' = [routeRuns EXCEPT ![k].awaiting = "directions"]
                       /\ UNCHANGED <<matchedRouteData, matchedFrom>>
                  ELSE /\ routeRuns' = Without(routeRuns, k)
                       /\ matchedRouteData' = result
                       /\ matchedFrom' = routeRuns[k].coordinates
    /\ isProcessingRoute' = FALSE
    /\ UNCHANGED <<coordinates, selectedCoordinate, isLoading, routeData, mapLoaded,
                   snapRequest, clearedSinceSnap>>
    /\ UNCHANGED <<mapCoordinates, mapRunVars>>
    /\ UNCHANGED postVars

\* map-component.tsx:166-191 and 240-242: the directions fetch of a run
\* settles.
RouteDirectionsSettles ==
    /\ \E k \in 1..Len(routeRuns) :
         /\ routeRuns[k].awaiting = "directions"
         /\ \E served \in PageDirectionsServes :
              LET points == routeRuns[k].coordinates
                  result == MapDirectionsResult(points, Waypoints(points), served)
              IN  /\ routeRuns' = Without(routeRuns, k)
                  /\ IF result = NoResult
                     THEN UNCHANGED <<matchedRouteData, matchedFrom>>
                     ELSE /\ matchedRouteData' = result
                          /\ matchedFrom' = points
    /\ UNCHANGED <<coordinates, selectedCoordinate, isLoading, routeData, mapLoaded,
                   snapRequest, clearedSinceSnap>>
    /\ UNCHANGED <<mapCoordinates, isProcessingRoute, mapRunVars>>
    /\ UNCHANGED postVars

-----------------------------------------------------------------------------
(* The system: one POST request, or one mounted component *)

Init ==
    \/ PostStart /\ MapIdle /\ PageIdle
    \/ PostIdle /\ MapStart /\ PageIdle

Next ==
    \/ PostReceive
    \/ PostMatchingSettles
    \/ PostDirectionsSettles
    \/ MapEffect
    \/ MapSingleSettles
    \/ MapBatchSettles
    \/ MapBatchMerge
    \/ MapDirectionsSettles

Spec == Init /\ [][Next]_vars

\* Every external call settles in the end (the Settles actions), and the
\* runtime runs a handler that was called and a continuation whose promise
\* has resolved (route.ts:24, 88, 138; map-component.tsx:101, 221-245).
Fairness ==
    /\ WF_vars(PostReceive)
    /\ WF_vars(PostMatchingSettles)
    /\ WF_vars(PostDirectionsSettles)
    /\ WF_vars(MapEffect)
    /\ WF_vars(MapSingleSettles)
    /\ WF_vars(MapBatchSettles)
    /\ WF_vars(MapBatchMerge)
    /\ WF_vars(MapDirectionsSettles)

FairSpec == Spec /\ Fairness

\* The page, mounted with no coordinates, and the component it renders.
PageInit == PostIdle /\ MapIdle /\ PageIdle

PageNext ==
    \/ MapLoads
    \/ handleCoordinatesUpload
    \/ handleAddCoordinate
    \/ handleDeleteCoordinate
    \/ handleCoordinateSelect
    \/ MapClick
    \/ handleSnapToRoads
    \/ SnapSettles
    \/ handleClearAll
    \/ RouteMatchingSettles
    \/ RouteDirectionsSettles

PageSpec == PageInit /\ [][PageNext]_vars

-----------------------------------------------------------------------------
(* Properties *)

Min(a, b) == IF a <= b THEN a ELSE b

IsPrefix(a, b) == Len(a) <= Len(b) /\ SubSeq(b, 1, Len(a)) = a

Contains(whole, part) ==
    \E k \in 0..(Len(whole) - Len(part)) : SubSeq(whole, k + 1, k + Len(part)) = part

PostFinished == postPc = "done"

RequestHasTwoFixes == request.hasCoordinates /\ Len(request.coordinates) >= 2

PostSucceeded ==
    /\ postResponse.status = 200
    /\ postResponse.method \in {"map-matching", "directions", "simple"}
    /\ Len(postResponse.geometry.coordinates) > 0

MatchingFailedQuietly ==
    /\ Len(postServed) >= 1
    /\ postServed[1].outcome \in {"notOk", "unparseable", "noMatchings"}

\* C1: a POST request with at least 2 fixes and a configured credential ends
\* with a successful result (map-matching, directions or simple, with a
\* geometry), never with a failure, however the external calls fail.
C1_PostNeverFails ==
    (PostFinished /\ MAPBOX_ACCESS_TOKEN /\ RequestHasTwoFixes) => PostSucceeded

\* The logs of POST and of processRoute run through the strategies in order.
PostLogs ==
    { <<"configurationFailure">>, <<"validationFailure">>,
      <<"matchingSent", "processingFailure">>,
      <<"matchingSent", "returnedMatched">>,
      <<"matchingSent", "directionsSent", "processingFailure">>,
      <<"matchingSent", "directionsSent", "returnedDirections">>,
      <<"matchingSent", "directionsSent", "simpleBuilt", "returnedSimple">> }

MapLogs ==
    { <<"matchingSent", "setMatched">>,
      <<"matchingSent", "directionsSent", "setDirections">> }

NoMatchServed(served) ==
    \A i \in 1..Len(served) :
        served[i].endpoint = "matching" => served[i].outcome # "matched"

StrategiesInOrder ==
    /\ \E log \in PostLogs \cup {<<>>} : IsPrefix(postLog, log)
    /\ \E log \in MapLogs \cup {<<>>} : IsPrefix(mapLog, log)
    /\ Len(postDirCalls) > 0 =>
          /\ Len(postServed) >= 1
          /\ postServed[1].endpoint = "matching"
          /\ postServed[1].outcome # "matched"
    /\ (postResponse.status = 200 /\ postResponse.method = "simple") =>
          /\ Len(postServed) = 2
          /\ postServed[2].endpoint = "directions"
          /\ postServed[2].outcome # "routed"
    /\ Len(mapDirCalls) > 0 =>
          /\ Len(mapServed) >= Len(mapMatchCalls)
          /\ NoMatchServed(mapServed)

ResultIsFinal ==
    /\ postResponse # NoResponse => UNCHANGED postVars
    /\ matchedRoute # NoResult =>
          UNCHANGED <<matchedRoute, matchedRouteData, mapMatchCalls, mapDirCalls>>

\* C2: within one request the strategies are attempted in the order
\* map-matching, directions, simple: the directions endpoint is called only
\* after the matching call has settled without a match, the simple path is
\* built only after the directions call has settled without a route, and once
\* a strategy has produced a result no later strategy runs or replaces it.
C2_StrategyOrder == [](StrategiesInOrder) /\ [][ResultIsFinal]_vars

C2_Witness ==
    /\ PostFinished
    /\ postResponse.status = 200
    /\ postResponse.method = "simple"
    /\ postLog = <<"matchingSent", "directionsSent", "simpleBuilt", "returnedSimple">>

RequestHasTooFewFixes == ~request.hasCoordinates \/ Len(request.coordinates) < 2

NoCallSent ==
    /\ postMatchCalls = <<>>
    /\ postDirCalls = <<>>
    /\ postServed = <<>>

\* C3 as stated: a request whose fix list is absent or has fewer than 2 fixes
\* fails with the input-validation failure, and no request is sent to either
\* endpoint.
C3_AsStated ==
    (PostFinished /\ RequestHasTooFewFixes) =>
        (postResponse = ValidationFailure /\ NoCallSent)

\* C3 as amended: for such a request no call is ever sent; with the credential
\* configured it fails with the input-validation failure, without it with
\* the configuration failure.
C3_TooFewFixes ==
    (postPc \notin {"idle", "start"} /\ RequestHasTooFewFixes) =>
        /\ PostFinished
        /\ NoCallSent
        /\ postResponse = IF MAPBOX_ACCESS_TOKEN
                          THEN [status |-> 400,
                                error |-> "At least 2 coordinates are required"]
                          ELSE [status |-> 500,
                                error |-> "Mapbox access token not configured"]

C3_Witness ==
    /\ PostFinished
    /\ MAPBOX_ACCESS_TOKEN
    /\ request.hasCoordinates
    /\ Len(request.coordinates) = 1
    /\ postResponse.status = 400

\* C4: without the credential POST fails at once with the configuration
\* failure for every input: no call is sent to either endpoint and no
\* strategy, not even the simple path, is attempted.
C4_NoCredential ==
    (postPc \notin {"idle", "start"} /\ ~MAPBOX_ACCESS_TOKEN) =>
        /\ PostFinished
        /\ postResponse = [status |-> 500,
                           error |-> "Mapbox access token not configured"]
        /\ NoCallSent
        /\ processedCoordinates = <<>>
        /\ postLog = <<"configurationFailure">>

C4_Witness ==
    /\ PostFinished
    /\ ~MAPBOX_ACCESS_TOKEN
    /\ RequestHasTwoFixes
    /\ postResponse.status = 500

\* C5: every request sent to the matching endpoint carries at least 2 and at
\* most 100 points, in POST after time-interval sampling and in the component
\* for the single request and for each batch.
C5_MatchingRequestSizes ==
    /\ \A i \in 1..Len(postMatchCalls) :
          Len(postMatchCalls[i]) >= 2 /\ Len(postMatchCalls[i]) <= 100
    /\ \A i \in 1..Len(mapMatchCalls) :
          Len(mapMatchCalls[i]) >= 2 /\ Len(mapMatchCalls[i]) <= 100

SomeMatchServed(served) ==
    \E i \in 1..Len(served) :
        served[i].endpoint = "matching" /\ served[i].outcome = "matched"

\* C6: the result's method is map-matching if and only if at least one
\* matching request of the attempt returned a match: one matched batch is
\* enough, and with no matched request the method is never map-matching.
C6_MatchedIffSomeMatch ==
    /\ PostFinished =>
          ((postResponse.status = 200 /\ postResponse.method = "map-matching")
              <=> SomeMatchServed(postServed))
    /\ mapPc \in {"directions", "done"} =>
          /\ (matchedRoute.method = "map-matching") <=> SomeMatchServed(mapServed)
          /\ (matchedRouteData.method = "map-matching") <=> SomeMatchServed(mapServed)

C6_Witness ==
    /\ mapPc = "done"
    /\ Len(batches) >= 2
    /\ \E b \in 1..Len(batches) : batchResults[b] = NoResult
    /\ matchedRouteData.method = "map-matching"

DirectionsRouted(served) ==
    \E i \in 1..Len(served) :
        served[i].endpoint = "directions" /\ served[i].outcome = "routed"

\* C7: whenever matching fails and the directions endpoint succeeds, the
\* result has method directions and confidence exactly 0.9, for the result
\* of POST and for the result of the component's directions fallback.
C7_DirectionsConfidence ==
    /\ (PostFinished /\ DirectionsRouted(postServed)) =>
          /\ postResponse.status = 200
          /\ postResponse.method = "directions"
          /\ "confidence" \in DOMAIN postResponse
          /\ FracEq(postResponse.confidence, <<9, 10>>)
    /\ (mapPc = "done" /\ DirectionsRouted(mapServed)) =>
          /\ matchedRouteData.method = "directions"
          /\ FracEq(matchedRouteData.confidence, <<9, 10>>)

\* C8: if both external strategies fail for a sequence of len >= 2 fixes, the
\* result of POST has method simple, no confidence, and a geometry of exactly
\* min(len, 50) vertices.
C8_SimpleVertexCount ==
    (/\ PostFinished
     /\ MatchingFailedQuietly
     /\ Len(postServed) = 2
     /\ postServed[2].outcome \in {"notOk", "noRoutes"}) =>
        /\ postResponse.status = 200
        /\ postResponse.method = "simple"
        /\ "confidence" \notin DOMAIN postResponse
        /\ Len(postResponse.geometry.coordinates)
               = Min(Len(request.coordinates), 50)

\* The line the service returned for batch b, <<>> if it returned none: the
\* batch failed or its match holds no LineString.
ServedGeometry(b) ==
    LET hits == { i \in 1..Len(mapServed) :
                    /\ mapServed[i].endpoint = "matching"
                    /\ mapServed[i].batch = b
                    /\ mapServed[i].outcome = "matched"
                    /\ mapServed[i].shape \in GeometryShapes }
    IN  IF hits = {}
        THEN <<>>
        ELSE ServiceGeometry(batches[b], mapServed[CHOOSE i \in hits : TRUE].shape).coordinates

BatchAttemptOver == mapPc \in {"directions", "done"} /\ batches # <<>>

RECURSIVE ServedGeometriesUpTo(_)
ServedGeometriesUpTo(b) ==
    IF b = 0 THEN <<>> ELSE ServedGeometriesUpTo(b - 1) \o ServedGeometry(b)

MergedBatches ==
    { b \in 1..Len(batchResults) :
        /\ batchResults[b] \notin {Pending, NoResult}
        /\ batchResults[b].geometry.type = "LineString" }

RECURSIVE ConfidenceSum(_)
ConfidenceSum(merged) ==
    IF merged = {}
    THEN <<0, 1>>
    ELSE LET b == CHOOSE x \in merged : TRUE
         IN  FracAdd(batchResults[b].confidence, ConfidenceSum(merged \ {b}))

\* C11: the confidence of a batched matched result is the arithmetic mean of
\* the confidences of exactly the batches whose geometry was merged: as many
\* values are summed as the sum is divided by, and a failed batch counts in
\* neither.
C11_MeanOfMergedBatches ==
    (BatchAttemptOver /\ matchedRoute.method = "map-matching" /\ MergedBatches # {}) =>
        LET sum == ConfidenceSum(MergedBatches)
        IN  FracEq(matchedRoute.confidence,
                   <<sum[1], sum[2] * Cardinality(MergedBatches)>>)

PostMatched ==
    /\ PostFinished
    /\ postResponse.status = 200
    /\ postResponse.method = "map-matching"

\* C12: the confidence of a matched POST result is the number of non-null
\* tracepoints of the response divided by the number of points sent in the
\* request, so it lies in [0,1] and is 1 when every point sent was placed;
\* processedPoints is the number of points sent, originalPoints the number
\* of fixes submitted.
C12_TracepointRatio ==
    PostMatched =>
        LET sent == Len(postMatchCalls[1])
            placed == postServed[1].valid
        IN  /\ postResponse.confidence[2] = sent
            /\ postResponse.confidence[1] = placed
            /\ 0 <= postResponse.confidence[1]
            /\ postResponse.confidence[1] <= postResponse.confidence[2]
            /\ placed = sent => FracEq(postResponse.confidence, <<1, 1>>)
            /\ postResponse.processedPoints = sent
            /\ postResponse.originalPoints = Len(request.coordinates)

C12_Witness ==
    /\ PostMatched
    /\ Len(request.coordinates) = 3
    /\ \A i \in 1..3 : request.coordinates[i].timestamp = i - 1
    /\ postServed[1].valid = 3
    /\ FracEq(postResponse.confidence, <<1, 1>>)
    /\ postResponse.processedPoints = 3
    /\ postResponse.originalPoints = 3

RECURSIVE Flatten(_)
Flatten(lists) ==
    IF lists = <<>> THEN <<>> ELSE Flatten(SubSeq(lists, 1, Len(lists) - 1)) \o Last(lists)

\* What the splitter makes of the coordinates the component holds.
SplitOfCoordinates == SplitBatches(mapCoordinates)

\* C13: the batches are consecutive windows: put together in order they give
\* the input again, less only a last window of fewer than 2 fixes; every
\* batch has at least 2 and at most 100 fixes, and an input of at least 2
\* fixes gives at least one batch. The splitter is applied to every input
\* the component is mounted with, and the batches a run holds are its output.
C13_SplitterWindows ==
    /\ (mapPc = "mounted" /\ Len(mapCoordinates) >= 2) =>
          \A split \in {SplitOfCoordinates} :
             \A flat \in {Flatten(split)} :
                /\ Len(split) >= 1
                /\ \A k \in 1..Len(split) :
                      /\ Len(split[k]) >= 2
                      /\ Len(split[k]) <= 100
                /\ IsPrefix(flat, mapCoordinates)
                /\ Len(mapCoordinates) - Len(flat) < 2
    /\ (batches # <<>> /\ mapServed = <<>>) => batches = SplitOfCoordinates

C13_Witness ==
    /\ mapPc = "batch"
    /\ Len(mapCoordinates) = 201
    /\ Len(batches) = 2
    /\ Len(batches[1]) = 100
    /\ Len(batches[2]) = 100
    /\ Last(batches[2]).id = 200

\* The nearest integer to num / den, ties upwards.
NearestInteger(num, den) == (2 * num + den) \div (2 * den)

\* The source index (from 0) of slot k (from 0) of a sample of target points
\* out of len.
SlotIndex(k, len, target) ==
    IF k = 0 THEN 0
    ELSE IF k = target - 1 THEN len - 1
    ELSE NearestInteger(k * (len - 1), target - 1)

EvenlySampled(out, source, target) ==
    /\ Len(out) = Min(Len(source), target)
    /\ Len(source) <= target => out = source
    /\ Len(source) > target =>
          /\ \A k \in 0..(target - 1) :
                out[k + 1] = source[SlotIndex(k, Len(source), target) + 1]
          /\ \A k \in 1..(target - 1) :
                SlotIndex(k - 1, Len(source), target) < SlotIndex(k, Len(source), target)

\* C14: sampleCoordinatesEvenly returns min(len, M) points with strictly
\* increasing source indices, the first from index 0, the last from index
\* len - 1, slot i in between from index round(i * (len - 1) / (M - 1)), and
\* its input unchanged when len <= M.
C14_EvenSampling ==
    /\ Len(postDirCalls) > 0 =>
          EvenlySampled(postDirCalls[1], processedCoordinates, 25)
    /\ (PostFinished /\ postResponse.status = 200 /\ postResponse.method = "simple") =>
          EvenlySampled(postResponse.geometry.coordinates, Ids(processedCoordinates), 50)

\* The request went past validation: its fixes were sorted and sampled and
\* the matching request has just been sent.
PostSent == postPc = "matching"

\* Where the fix with this id stands in the list.
PositionOf(id, list) == CHOOSE i \in 1..Len(list) : list[i].id = id

\* out takes fixes of source from strictly increasing positions, none twice,
\* the first from the first position and the last from the last.
IsEndToEndSubsequence(out, source) ==
    /\ \A k \in 1..Len(out) :
          \E i \in 1..Len(source) : source[i] = out[k]
    /\ \A k \in 1..(Len(out) - 1) :
          PositionOf(out[k].id, source) < PositionOf(out[k + 1].id, source)
    /\ out[1] = source[1]
    /\ Last(out) = Last(source)

\* C15: the output of time-interval sampling is a subsequence of its
\* timestamp-sorted input: its fixes come from strictly increasing positions
\* of the input, none twice, the first is the first fix of the input and the
\* last the last one, whatever the timestamps are.
C15_SampleIsSubsequence ==
    PostSent =>
        LET sortedCoordinates == SortByTimestamp(request.coordinates)
        IN  IsEndToEndSubsequence(processedCoordinates, sortedCoordinates)

C15_Witness ==
    /\ PostSent
    /\ Len(request.coordinates) > 100
    /\ request.coordinates[1].timestamp > request.coordinates[2].timestamp
    /\ Len(processedCoordinates) > 2
    /\ Len(processedCoordinates) < Len(request.coordinates)

\* C16: for a timestamp-sorted input of len fixes the time-interval sampling
\* step of POST, whose target is 100, puts out exactly min(len, 100) fixes.
C16_SampleCount ==
    PostSent => Len(processedCoordinates) = Min(Len(request.coordinates), 100)

\* The list holds every fix of the input once and nothing else, by
\* non-decreasing timestamp.
IsSortedInput(list, input) ==
    /\ Len(list) = Len(input)
    /\ \A i \in 1..Len(input) : \E k \in 1..Len(list) : list[k] = input[i]
    /\ \A k \in 1..(Len(list) - 1) : list[k].timestamp <= list[k + 1].timestamp

\* C17: for a request of 2 to 100 fixes the sampler does nothing: the points
\* POST sends to the matching endpoint are the fixes of the request sorted
\* by timestamp, none removed and none added.
C17_NoSamplingUpTo100 ==
    (PostSent /\ Len(request.coordinates) <= 100) =>
        /\ IsSortedInput(postMatchCalls[1], request.coordinates)
        /\ postMatchCalls[1] = SortByTimestamp(request.coordinates)
        /\ processedCoordinates = postMatchCalls[1]

C17_Witness ==
    /\ PostSent
    /\ Len(request.coordinates) = 100
    /\ request.coordinates[1].timestamp > request.coordinates[100].timestamp
    /\ Len(postMatchCalls[1]) = 100
    /\ postMatchCalls[1][1] = request.coordinates[100]

\* C18: provided every external call settles in the end, every match request
\* ends: POST returns a result or a failure, processRoute runs to its end,
\* and none stays for ever waiting for the matching or the directions call.
C18_RequestsEnd ==
    /\ (postPc \in {"start", "matching", "directions"}) ~> (postPc = "done")
    /\ (mapPc \in {"mounted", "single", "batch", "directions"}) ~> (mapPc = "done")
    /\ [](postPc = "done" => postResponse.status \in {200, 400, 500})

C18_Witness ==
    /\ mapPc = "done"
    /\ Len(batches) >= 2
    /\ Len(mapDirCalls) = 1
    /\ \E i \in 1..Len(mapServed) : mapServed[i].outcome = "throws"

\* C19: every request to the directions endpoint carries at most 25
\* waypoints, the first of them the first and the last of them the last point
\* of the sequence it was taken from: in POST and in the component's
\* performDirectionsMatching.
C19_DirectionsRequestSizes ==
    /\ \A i \in 1..Len(postDirCalls) :
          /\ Len(postDirCalls[i]) <= 25
          /\ postDirCalls[i][1] = processedCoordinates[1]
          /\ Last(postDirCalls[i]) = Last(processedCoordinates)
    /\ \A i \in 1..Len(mapDirCalls) :
          /\ Len(mapDirCalls[i]) <= 25
          /\ mapDirCalls[i][1] = mapCoordinates[1]
          /\ Last(mapDirCalls[i]) = Last(mapCoordinates)


\* How many of the component's calls to an endpoint have settled so far.
SettledCalls(served, endpoint) ==
    Cardinality({ i \in 1..Len(served) : served[i].endpoint = endpoint })

\* C20: no external call is repeated. The POST handler sends the matching
\* endpoint one request in all and the directions endpoint at most one; the
\* component sends the matching endpoint one request per batch (one request
\* when it does not split) and the directions endpoint at most one, whatever
\* the outcomes; a failed request is not sent again, so each request settles
\* at most once and each batch is answered at most once.
C20_NoCallRepeated ==
    /\ Len(postMatchCalls) <= 1
    /\ Len(postDirCalls) <= 1
    /\ postPc \in {"matching", "directions"} => Len(postMatchCalls) = 1
    /\ SettledCalls(postServed, "matching") <= Len(postMatchCalls)
    /\ SettledCalls(postServed, "directions") <= Len(postDirCalls)
    /\ mapPc \in {"single", "batch", "directions"} =>
          /\ mapMatchCalls = (IF batches = <<>> THEN <<mapCoordinates>> ELSE batches)
          /\ Len(mapMatchCalls) >= 1
    /\ mapPc = "directions" => Len(mapDirCalls) = 1
    /\ Len(mapDirCalls) <= 1
    /\ SettledCalls(mapServed, "matching") <= Len(mapMatchCalls)
    /\ SettledCalls(mapServed, "directions") <= Len(mapDirCalls)
    /\ \A i, j \in 1..Len(mapServed) :
          (mapServed[i].endpoint = "matching" /\ mapServed[j].endpoint = "matching"
              /\ mapServed[i].batch = mapServed[j].batch) => i = j

\* Every one of three batch requests has failed, and so has the directions
\* request: four calls were made, none of them twice.
C20_Witness ==
    /\ mapPc = "done"
    /\ Len(batches) = 3
    /\ Len(mapMatchCalls) = 3
    /\ Len(mapDirCalls) = 1
    /\ Len(mapServed) = 4
    /\ \A i \in 1..Len(mapServed) : mapServed[i].outcome \notin {"matched", "routed"}
    /\ matchedRouteData = NoResult


\* The points are by non-decreasing timestamp, and points with equal
\* timestamps are in the order they were submitted in (a fix's id is its
\* position in the submitted list).
StablyOrdered(points) ==
    \A k \in 1..(Len(points) - 1) :
        \/ points[k].timestamp < points[k + 1].timestamp
        \/ /\ points[k].timestamp = points[k + 1].timestamp
           /\ points[k].id < points[k + 1].id

\* The list is as it was submitted.
AsSubmitted(list) == \A i \in 1..Len(list) : list[i].id = i

\* C21: every point sequence sent to the matching or the directions endpoint,
\* by POST or by the component (single, batched or directions request), is by
\* non-decreasing timestamp with equal timestamps in submitted order, and
\* the submitted list is left as it was.
C21_CallsInTimestampOrder ==
    /\ \A i \in 1..Len(postMatchCalls) : StablyOrdered(postMatchCalls[i])
    /\ \A i \in 1..Len(postDirCalls) : StablyOrdered(postDirCalls[i])
    /\ \A i \in 1..Len(mapMatchCalls) : StablyOrdered(mapMatchCalls[i])
    /\ \A i \in 1..Len(mapDirCalls) : StablyOrdered(mapDirCalls[i])
    /\ AsSubmitted(request.coordinates)
    /\ AsSubmitted(mapCoordinates)


\* A matching request of the component has been sent and has not settled.
MatchingInFlight ==
    \/ mapPc = "single"
    \/ mapPc = "batch" /\ \E b \in 1..Len(batchResults) : batchResults[b] = Pending

\* C22: isProcessingRoute is true whenever a matching request of the
\* component is in flight, also while some batch requests of the attempt
\* have settled and others have not.
C22_ProcessingWhileInFlight == MatchingInFlight => isProcessingRoute


\* No request of the page or of its component is in flight.
PageSettled == routeRuns = <<>> /\ snapRequest = NoSnap

\* C23: once every request in flight has settled, matchedRouteData, if set,
\* was computed from the coordinates the component holds now: no result of a
\* processRoute run started for earlier coordinates is left in it.
C23_MatchedRouteIsCurrent ==
    (PageSettled /\ matchedRouteData # NoResult) => matchedFrom = mapCoordinates

\* C24: after Clear All routeData stays null until a new Snap to Roads is
\* started, also when a snap request was in flight at Clear All; and
\* isLoading is false once no snap request is in flight.
C24_ClearedStaysCleared ==
    /\ clearedSinceSnap => routeData = NoResult
    /\ snapRequest = NoSnap => ~isLoading

\* C25: selectedCoordinate is null or has the id of a fix in coordinates.
C25_SelectionInCoordinates ==
    \/ selectedCoordinate = NoSelection
    \/ \E i \in 1..Len(coordinates) : coordinates[i].id = selectedCoordinate.id

\* A fix is selected after the list it was uploaded in has lost another fix
\* (the route of the full list is still in matchedRouteData).
C25_Witness ==
    /\ matchedFrom = <<PageFix(1), PageFix(2)>>
    /\ coordinates = <<PageFix(2)>>
    /\ selectedCoordinate = PageFix(2)
    /\ routeRuns = <<>>

=============================================================================
